---- MODULE Spec2Model ----
(***************************************************************************)
(* Model of python-scrapinghub's Items proxy (scrapinghub/client/items.py) *)
(* and of the hubstorage test harness (tests/hubstorage/conftest.py).      *)
(*                                                                         *)
(* Text is modelled as a sequence of one-character strings, bytes as a     *)
(* sequence of numbers 0..255, a Python dict as a function whose domain is *)
(* the set of its keys.                                                    *)
(***************************************************************************)
EXTENDS Integers, Sequences, FiniteSets, TLC

VARIABLES
    \* ---- conftest.py module level, read from the environment at import ----
    TEST_PROJECT_ID,        \* os.getenv('HS_PROJECT_ID', DEFAULT_PROJECT_ID)
    TEST_ENDPOINT,          \* os.getenv('HS_ENDPOINT', DEFAULT_ENDPOINT)
    NORMALIZE_CASSETTES,    \* os.getenv('NORMALIZE_CASSETTES', False), as a truth value
    \* ---- VCRGzipSerializer ----
    cassette,       \* the cassette_dict the caller holds (normalized in place)
    cassette0,      \* history: cassette_dict as first recorded
    norm1,          \* history: cassette_dict after its first normalization
    nNorm,          \* how many times normalize_cassette ran on cassette_dict
    passed,         \* history: the value of cassette_dict when serialize was called
    blob,           \* the string serialize returned
    loaded,         \* the dict deserialize returned
    sPc,            \* "ready" | "serialized" | "loaded"
    \* ---- Items._modify_iter_params ----
    itKey,      \* self.key of the Items proxy
    itParams,   \* the params dict handed to _modify_iter_params
    itOut,      \* the dict it returned
    itPc,       \* "call" | "done"
    \* ---- remove_all_jobs / _remove_job ----
    settings,       \* hsproject.settings, the local mapping
    settings0,      \* history: hsproject.settings when remove_all_jobs was called
    savedSettings,  \* the project settings the service holds
    jobState,       \* the service's job table: job key -> queue
    jQi,            \* position in ('pending', 'running', 'finished')*2
    jTodo,          \* the rest of info['summary'], current job first
    jLog,           \* history: the backend operations issued, in order
    jPc,            \* where remove_all_jobs stands
    \* ---- clean_collection ----
    collExists,     \* whether the service holds the collection
    collItems,      \* the entries the service holds (each with its '_key')
    collItems0,     \* history: the entries when clean_collection was called
    cTodo,          \* what collection.iter_values() still has to yield
    cAnswers,       \* history: the status the service gave to each request
    cRaised,        \* status of the HTTPError clean_collection let through, 0 if none
    cPc,            \* where clean_collection stands
    \* ---- the pytest session: pytest_configure, the fixtures, my_vcr ----
    run,            \* number of the test run (one pytest process each)
    optUpdate,      \* config.option.update_cassettes
    optIgnore,      \* config.option.ignore_cassettes
    record_mode,    \* my_vcr.record_mode
    skipRecording,  \* my_vcr.before_record_request is `lambda request: None`
    cassettes,      \* the files under VCR_CASSETES_DIR: name -> interactions
    suite,          \* the tests this run still has to execute
    current,        \* the test being executed, <<>> between tests
    tape,           \* the cassette my_vcr.use_cassette opened for that test
    sLog,           \* history: what this run did, in order
    closeCount,     \* how many times hsclient.close() ran in this run
    used,           \* history: which test of this run was given which name
    written,        \* history: every write of a cassette file in this run
    replayed,       \* history: every replay from a cassette file in this run
    phase           \* where the session stands

itemsVars == <<itKey, itParams, itOut, itPc>>
jobsVars == <<settings, settings0, savedSettings, jobState, jQi, jTodo, jLog, jPc>>
collVars == <<collExists, collItems, collItems0, cTodo, cAnswers, cRaised, cPc>>
envVars == <<TEST_PROJECT_ID, TEST_ENDPOINT, NORMALIZE_CASSETTES>>
cassVars == <<cassette, cassette0, norm1, nNorm, passed, blob, loaded, sPc>>
sessVars == <<run, optUpdate, optIgnore, record_mode, skipRecording, cassettes, suite,
              current, tape, sLog, closeCount, used, written, replayed, phase>>

\* what an action of one part leaves alone
notItems == <<envVars, cassVars, jobsVars, collVars, sessVars>>
notJobs == <<envVars, cassVars, itemsVars, collVars, sessVars>>
notColl == <<envVars, cassVars, itemsVars, jobsVars, sessVars>>
notCass == <<envVars, itemsVars, jobsVars, collVars, sessVars>>
notSess == <<envVars, cassVars, itemsVars, jobsVars, collVars>>

vars == <<TEST_PROJECT_ID, TEST_ENDPOINT, NORMALIZE_CASSETTES,
          cassette, cassette0, norm1, nNorm, passed, blob, loaded, sPc,
          itKey, itParams, itOut, itPc,
          settings, settings0, savedSettings, jobState, jQi, jTodo, jLog, jPc,
          collExists, collItems, collItems0, cTodo, cAnswers, cRaised, cPc,
          run, optUpdate, optIgnore, record_mode, skipRecording, cassettes, suite,
          current, tape, sLog, closeCount, used, written, replayed, phase>>

(***************************************************************************)
(* Text helpers                                                            *)
(***************************************************************************)

\* The decimal digits, as str.format() prints an int.
Digits == <<"0", "1", "2", "3", "4", "5", "6", "7", "8", "9">>

RECURSIVE IntToStr(_)
IntToStr(n) ==
    IF n < 10 THEN <<Digits[n + 1]>>
    ELSE IntToStr(n \div 10) \o <<Digits[(n % 10) + 1]>>

\* s[i..] starts with old
StartsWithAt(s, i, old) ==
    /\ i + Len(old) - 1 <= Len(s)
    /\ \A j \in 1..Len(old) : s[i + j - 1] = old[j]

\* str.startswith
StartsWith(s, prefix) == StartsWithAt(s, 1, prefix)

\* `old in s`
Contains(s, old) == \E i \in 1..(Len(s) + 1) : StartsWithAt(s, i, old)

\* str.partition(sep)[2]: what follows the first occurrence of sep, '' if none
PartitionTail(s, sep) ==
    IF Contains(s, sep)
    THEN LET i == CHOOSE k \in 1..Len(s) :
                     /\ StartsWithAt(s, k, sep)
                     /\ \A m \in 1..(k - 1) : ~StartsWithAt(s, m, sep)
         IN SubSeq(s, i + Len(sep), Len(s))
    ELSE <<>>

RECURSIVE ReplaceFrom(_, _, _, _)
\* the occurrences of the non-empty `old` in s[i..] replaced, left to right
ReplaceFrom(s, i, old, new) ==
    IF i > Len(s) THEN <<>>
    ELSE IF StartsWithAt(s, i, old)
         THEN new \o ReplaceFrom(s, i + Len(old), old, new)
         ELSE <<s[i]>> \o ReplaceFrom(s, i + 1, old, new)

RECURSIVE Interleave(_, _, _)
\* str.replace('', new): `new` before every character and at the end
Interleave(s, i, new) ==
    IF i > Len(s) THEN new ELSE new \o <<s[i]>> \o Interleave(s, i + 1, new)

\* str.replace(old, new)
Replace(s, old, new) ==
    IF old = <<>> THEN Interleave(s, 1, new) ELSE ReplaceFrom(s, 1, old, new)

\* the printable ASCII characters, code 32 first (the double quote, the
\* backslash and the backtick, codes 34, 92 and 96, are spelled out)
Charset ==
    <<" ", "!", "dquote", "#", "$", "%", "&", "'", "(", ")", "*", "+", ",", "-",
      ".", "/", "0", "1", "2", "3", "4", "5", "6", "7", "8", "9", ":", ";",
      "<", "=", ">", "?", "@", "A", "B", "C", "D", "E", "F", "G", "H", "I",
      "J", "K", "L", "M", "N", "O", "P", "Q", "R", "S", "T", "U", "V", "W",
      "X", "Y", "Z", "[", "backslash", "]", "^", "_", "backtick", "a", "b", "c", "d", "e",
      "f", "g", "h", "i", "j", "k", "l", "m", "n", "o", "p", "q", "r", "s",
      "t", "u", "v", "w", "x", "y", "z", "{", "|", "}", "~">>

\* ord() and chr() on them; str.encode('utf-8') and bytes.decode('utf-8')
Ord(c) == 31 + (CHOOSE i \in DOMAIN Charset : Charset[i] = c)
Chr(n) == Charset[n - 31]
Utf8Encode(s) == [i \in DOMAIN s |-> Ord(s[i])]
Utf8Decode(b) == [i \in DOMAIN b |-> Chr(b[i])]

(***************************************************************************)
(* base64                                                                  *)
(***************************************************************************)
B64Alphabet ==
    <<"A", "B", "C", "D", "E", "F", "G", "H", "I", "J", "K", "L", "M", "N",
      "O", "P", "Q", "R", "S", "T", "U", "V", "W", "X", "Y", "Z", "a", "b",
      "c", "d", "e", "f", "g", "h", "i", "j", "k", "l", "m", "n", "o", "p",
      "q", "r", "s", "t", "u", "v", "w", "x", "y", "z", "0", "1", "2", "3",
      "4", "5", "6", "7", "8", "9", "+", "/">>

B64Pad == "="

B64Char(n) == B64Alphabet[n + 1]
B64Value(c) == (CHOOSE i \in DOMAIN B64Alphabet : B64Alphabet[i] = c) - 1

\* base64.b64encode(bytes), decoded to text: every three bytes give four
\* characters, a last group of one or two bytes is padded with '='
B64Encode(b) ==
    LET n == Len(b)
        Byte(i) == IF i <= n THEN b[i] ELSE 0
    IN [j \in 1..(4 * ((n + 2) \div 3)) |->
          LET g  == (j - 1) \div 4
              k  == (j - 1) % 4
              b0 == Byte(3 * g + 1)
              b1 == Byte(3 * g + 2)
              b2 == Byte(3 * g + 3)
          IN CASE k = 0 -> B64Char(b0 \div 4)
               [] k = 1 -> B64Char((b0 % 4) * 16 + b1 \div 16)
               [] k = 2 -> IF 3 * g + 2 > n THEN B64Pad
                           ELSE B64Char((b1 % 16) * 4 + b2 \div 64)
               [] k = 3 -> IF 3 * g + 3 > n THEN B64Pad
                           ELSE B64Char(b2 % 64)]

\* base64.b64decode(text)
B64Decode(s) ==
    LET m == Len(s)
        pads == (IF m > 0 /\ s[m] = B64Pad THEN 1 ELSE 0)
                + (IF m > 1 /\ s[m - 1] = B64Pad THEN 1 ELSE 0)
        Val(i) == IF s[i] = B64Pad THEN 0 ELSE B64Value(s[i])
    IN [k \in 1..(3 * (m \div 4) - pads) |->
          LET g == (k - 1) \div 3
              r == (k - 1) % 3
          IN CASE r = 0 -> Val(4 * g + 1) * 4 + Val(4 * g + 2) \div 16
               [] r = 1 -> (Val(4 * g + 2) % 16) * 16 + Val(4 * g + 3) \div 4
               [] r = 2 -> (Val(4 * g + 3) % 4) * 64 + Val(4 * g + 4)]

(***************************************************************************)
(* Python values held in a params dict: None, an int or a str.  The three  *)
(* shapes have different field names, so they never compare equal.         *)
(***************************************************************************)
None == [none |-> TRUE]
PyInt(n) == [int |-> n]
PyStr(s) == [str |-> s]

IsNone(v) == DOMAIN v = {"none"}
IsInt(v) == DOMAIN v = {"int"}
IsStr(v) == DOMAIN v = {"str"}

\* bool(v), as `if offset:` evaluates it
Truthy(v) ==
    IF IsInt(v) THEN v.int # 0
    ELSE IF IsStr(v) THEN v.str # <<>>
    ELSE FALSE

\* '{}'.format(v)
Format(v) ==
    IF IsInt(v) THEN IntToStr(v.int)
    ELSE IF IsStr(v) THEN v.str
    ELSE <<"N", "o", "n", "e">>

\* dict.pop(k, None): the value, and the dict without the key
PopValue(d, k) == IF k \in DOMAIN d THEN d[k] ELSE None
PopRest(d, k) == [x \in (DOMAIN d) \ {k} |-> d[x]]

\* d[k] = v
DictSet(d, k, v) == [x \in (DOMAIN d) \cup {k} |-> IF x = k THEN v ELSE d[x]]

(***************************************************************************)
(* Items._modify_iter_params                                               *)
(***************************************************************************)

\* _Proxy._modify_iter_params: the base class hook hands the params back.
ProxyModifyIterParams(params) == params

ItemsModifyIterParams(key, params0) ==
    LET params == ProxyModifyIterParams(params0)
        offset == PopValue(params, "offset")
        rest   == PopRest(params, "offset")
    IN IF Truthy(offset)
       THEN DictSet(rest, "start", PyStr(key \o <<"/">> \o Format(offset)))
       ELSE rest

\* ---- inputs of Items._modify_iter_params ----
MaxOffset == 12

JobKeys == { <<"1", "/", "2", "/", "3">>, <<"7", "/", "1", "/", "1", "0">> }

OffsetValues == {PyInt(n) : n \in 0..MaxOffset} \cup {None}
StartValues == { PyStr(<<"1", "/", "2", "/", "3", "/", "5">>), PyStr(<<"x">>) }
CountValues == { PyInt(1) }

ParamChoices(k) ==
    CASE k = "offset" -> OffsetValues
      [] k = "start"  -> StartValues
      [] k = "count"  -> CountValues

ParamDicts ==
    UNION { [ks -> OffsetValues \cup StartValues \cup CountValues]
            : ks \in SUBSET {"offset", "start", "count"} }

ValidParams == { d \in ParamDicts : \A k \in DOMAIN d : d[k] \in ParamChoices(k) }

ItemsIdle ==
    /\ itKey = <<>>
    /\ itParams = << >>
    /\ itOut = << >>
    /\ itPc = "idle"

ItemsStart ==
    /\ itKey \in JobKeys
    /\ itParams \in ValidParams
    /\ itOut = << >>
    /\ itPc = "call"

\* items.iter(**params) / items.list(**params) reach _modify_iter_params
ModifyIterParams ==
    /\ itPc = "call"
    /\ itOut' = ItemsModifyIterParams(itKey, itParams)
    /\ itPc' = "done"
    /\ UNCHANGED <<itKey, itParams>>
    /\ UNCHANGED notItems


(***************************************************************************)
(* Configuration (conftest.py, module level)                               *)
(***************************************************************************)
DEFAULT_PROJECT_ID == <<"2", "2", "2", "2", "2", "2", "2">>

DEFAULT_ENDPOINT ==
    <<"h", "t", "t", "p", ":", "/", "/", "s", "t", "o", "r", "a", "g", "e",
      ".", "v", "m", ".", "s", "c", "r", "a", "p", "i", "n", "g", "h", "u",
      "b", ".", "c", "o", "m">>

\* HubstorageClient.DEFAULT_ENDPOINT, the fallback of `TEST_ENDPOINT or ...`
HubstorageClient_DEFAULT_ENDPOINT ==
    <<"h", "t", "t", "p", "s", ":", "/", "/", "s", "t", "o", "r", "a", "g",
      "e", ".", "s", "c", "r", "a", "p", "i", "n", "g", "h", "u", "b", ".",
      "c", "o", "m", "/">>

\* the environment sets none of HS_PROJECT_ID, HS_ENDPOINT, NORMALIZE_CASSETTES
EnvDefault ==
    /\ TEST_PROJECT_ID = DEFAULT_PROJECT_ID
    /\ TEST_ENDPOINT = DEFAULT_ENDPOINT
    /\ NORMALIZE_CASSETTES = FALSE

(***************************************************************************)
(* remove_all_jobs and _remove_job                                         *)
(***************************************************************************)

\* ('pending', 'running', 'finished')*2
QueueOrder == <<"pending", "running", "finished", "pending", "running", "finished">>

\* The job keys the service may list: two of the test project, one of another
\* project, and one of a project whose id only starts with the test project's.
OwnJob1 == TEST_PROJECT_ID \o <<"/", "1", "/", "1">>
OwnJob2 == TEST_PROJECT_ID \o <<"/", "1", "/", "2">>
OtherJob == <<"1", "1", "1", "1", "1", "1", "1", "/", "1", "/", "1">>
LongerIdJob == TEST_PROJECT_ID \o <<"3", "/", "1", "/", "2">>
JobUniverse == {OwnJob1, OwnJob2, OtherJob, LongerIdJob}

\* at most this many jobs exist when remove_all_jobs is called
MaxJobs == 2

SettingKeys == {"botgroups", "job_runtime_limit", "frontier"}
SettingValues == { <<"python-hubstorage-test">>, <<"other">> }

\* the project id a job key names: what precedes its first '/'
ProjectOf(key) ==
    LET i == CHOOSE k \in 1..(Len(key) + 1) :
                 /\ (k = Len(key) + 1 \/ key[k] = "/")
                 /\ \A m \in 1..(k - 1) : key[m] # "/"
    IN SubSeq(key, 1, i - 1)

\* every ordering of a finite set, as the service may list it
Orderings(S) ==
    { s \in [1..Cardinality(S) -> S] : \A x \in S : \E i \in DOMAIN s : s[i] = x }

JobsIn(queue) == { k \in DOMAIN jobState : jobState[k] = queue }

Entry(op, queue, key, keys) == [op |-> op, queue |-> queue, key |-> key, keys |-> keys]

\* variant: the loop deletes every key, 'botgroups' included
StripSettingsAll(s) == [k \in {} |-> s[k]]

\* for k in list(settings.keys()): if k != 'botgroups': del settings[k]
StripSettings(s) == [k \in (DOMAIN s) \cap {"botgroups"} |-> s[k]]

\* service side of jobq.finish / jobq.delete / jobs.apidelete
JobqFinish(js, key) == [k \in DOMAIN js |-> IF k = key THEN "finished" ELSE js[k]]
JobqDelete(js, key) == [k \in DOMAIN js |-> IF k = key THEN "deleted" ELSE js[k]]
\* jobs.apidelete(rel) addresses the job `rel` of hsproject's own project
JobsApiDelete(js, rel) ==
    [k \in (DOMAIN js) \ {TEST_PROJECT_ID \o <<"/">> \o rel} |-> js[k]]

JobsIdle ==
    /\ settings = << >>
    /\ settings0 = << >>
    /\ savedSettings = << >>
    /\ jobState = << >>
    /\ jQi = 0
    /\ jTodo = <<>>
    /\ jLog = <<>>
    /\ jPc = "idle"

JobTables ==
    UNION { [ks -> {"pending", "running", "finished"}]
            : ks \in { x \in SUBSET JobUniverse : Cardinality(x) <= MaxJobs } }

JobsStart ==
    /\ settings \in UNION { [ks -> SettingValues] : ks \in SUBSET SettingKeys }
    /\ settings0 = settings
    /\ savedSettings = settings
    /\ jobState \in JobTables
    /\ jQi = 0
    /\ jTodo = <<>>
    /\ jLog = <<>>
    /\ jPc = "settings"

\* lines 199-202: strip the settings, then settings.save()
RemoveAllJobsSettings ==
    /\ jPc = "settings"
    /\ settings' = StripSettings(settings)
    /\ savedSettings' = settings'
    /\ jLog' = Append(jLog, Entry("save", "", <<>>, <<>>))
    /\ jQi' = 1
    /\ jPc' = "summary"
    /\ UNCHANGED <<settings0, jobState, jTodo>>
    /\ UNCHANGED notJobs

\* lines 205-207: info = hsproject.jobq.summary(queuename).  A summary lists
\* jobs of the queue, not necessarily all of them (hence the second pass).
RemoveAllJobsSummary ==
    /\ jPc = "summary"
    /\ jQi <= Len(QueueOrder)
    /\ \E listed \in SUBSET JobsIn(QueueOrder[jQi]) : \E info \in Orderings(listed) :
          /\ jLog' = Append(jLog, Entry("summary", QueueOrder[jQi], <<>>, info))
          /\ jTodo' = info
          /\ IF info = <<>>
             THEN jQi' = jQi + 1 /\ jPc' = "summary"
             ELSE jQi' = jQi /\ jPc' = "finish"
    /\ UNCHANGED <<settings, settings0, savedSettings, jobState>>
    /\ UNCHANGED notJobs

\* the for loop of line 205 is exhausted: remove_all_jobs returns
RemoveAllJobsReturn ==
    /\ jPc = "summary"
    /\ jQi > Len(QueueOrder)
    /\ jPc' = "returned"
    /\ UNCHANGED <<settings, settings0, savedSettings, jobState, jQi, jTodo, jLog>>
    /\ UNCHANGED notJobs

\* line 212: hsproject.jobq.finish(jobkey)
RemoveJobFinish ==
    /\ jPc = "finish"
    /\ jLog' = Append(jLog, Entry("finish", "", Head(jTodo), <<>>))
    /\ jobState' = JobqFinish(jobState, Head(jTodo))
    /\ jPc' = "delete"
    /\ UNCHANGED <<settings, settings0, savedSettings, jQi, jTodo>>
    /\ UNCHANGED notJobs

\* line 213: hsproject.jobq.delete(jobkey)
RemoveJobDelete ==
    /\ jPc = "delete"
    /\ jLog' = Append(jLog, Entry("delete", "", Head(jTodo), <<>>))
    /\ jobState' = JobqDelete(jobState, Head(jTodo))
    /\ jPc' = "assert"
    /\ UNCHANGED <<settings, settings0, savedSettings, jQi, jTodo>>
    /\ UNCHANGED notJobs

\* line 215: assert jobkey.startswith(TEST_PROJECT_ID), jobkey
RemoveJobAssert ==
    /\ jPc = "assert"
    /\ jPc' = IF StartsWith(Head(jTodo), TEST_PROJECT_ID) THEN "apidelete" ELSE "aborted"
    /\ UNCHANGED <<settings, settings0, savedSettings, jobState, jQi, jTodo, jLog>>
    /\ UNCHANGED notJobs

\* line 216: hsproject.jobs.apidelete(jobkey.partition('/')[2]), then the next
\* summary entry, or the next queue
RemoveJobApiDelete ==
    /\ jPc = "apidelete"
    /\ jLog' = Append(jLog, Entry("apidelete", "", Head(jTodo), <<>>))
    /\ jobState' = JobsApiDelete(jobState, PartitionTail(Head(jTodo), <<"/">>))
    /\ jTodo' = Tail(jTodo)
    /\ IF Tail(jTodo) = <<>>
       THEN jQi' = jQi + 1 /\ jPc' = "summary"
       ELSE jQi' = jQi /\ jPc' = "finish"
    /\ UNCHANGED <<settings, settings0, savedSettings>>
    /\ UNCHANGED notJobs

\* the service moves a job on by itself while the cleanup runs
JobAdvances ==
    /\ jPc \in {"summary", "finish", "delete", "assert", "apidelete"}
    /\ \E k \in DOMAIN jobState :
          /\ jobState[k] \in {"pending", "running"}
          /\ jobState' = [jobState EXCEPT
                            ![k] = IF jobState[k] = "pending" THEN "running" ELSE "finished"]
    /\ UNCHANGED <<settings, settings0, savedSettings, jQi, jTodo, jLog, jPc>>
    /\ UNCHANGED notJobs


(***************************************************************************)
(* clean_collection                                                        *)
(***************************************************************************)

\* at most this many entries are in the collection
MaxItems == 3

ItemKeys == {"k1", "k2", "k3", "k4"}
Item(k) == ("_key" :> k) @@ ("value" :> "v")

HTTP_OK == 200
HTTP_NOT_FOUND == 404
HTTP_SERVER_ERROR == 500

\* What the service may answer to the listing: the entries if the collection
\* exists, 404 if it does not, a server error at any time.
IterAnswers == (IF collExists THEN {HTTP_OK} ELSE {HTTP_NOT_FOUND}) \cup {HTTP_SERVER_ERROR}

\* What the service may answer to the delete of one entry: done, not found,
\* or a server error.
DeleteAnswers == {HTTP_OK, HTTP_NOT_FOUND, HTTP_SERVER_ERROR}

\* except HTTPError as e: if e.response.status_code != 404: raise
\* -> the status of the error that leaves clean_collection, 0 if it is swallowed
Reraised(status) == IF status # HTTP_NOT_FOUND THEN status ELSE 0

CollIdle ==
    /\ collExists = FALSE
    /\ collItems = {}
    /\ collItems0 = {}
    /\ cTodo = <<>>
    /\ cAnswers = <<>>
    /\ cRaised = 0
    /\ cPc = "idle"

CollStart ==
    /\ collExists \in BOOLEAN
    /\ collItems \in { {Item(k) : k \in ks} :
                       ks \in { x \in SUBSET ItemKeys : Cardinality(x) <= MaxItems } }
    /\ ~collExists => collItems = {}
    /\ collItems0 = collItems
    /\ cTodo = <<>>
    /\ cAnswers = <<>>
    /\ cRaised = 0
    /\ cPc = "iter"

\* line 227: the for loop asks collection.iter_values() for the entries
CleanCollectionIter ==
    /\ cPc = "iter"
    /\ \E st \in IterAnswers :
          /\ cAnswers' = Append(cAnswers, st)
          /\ IF st = HTTP_OK
             THEN \E order \in Orderings(collItems) :
                      /\ cTodo' = order
                      /\ cPc' = IF order = <<>> THEN "returned" ELSE "delete"
                      /\ cRaised' = 0
             ELSE /\ cTodo' = <<>>
                  /\ cRaised' = Reraised(st)
                  /\ cPc' = IF Reraised(st) # 0 THEN "raised" ELSE "returned"
    /\ UNCHANGED <<collExists, collItems, collItems0>>
    /\ UNCHANGED notColl

\* line 228: collection.delete(item['_key']), then the next entry
CleanCollectionDelete ==
    /\ cPc = "delete"
    /\ \E st \in DeleteAnswers :
          /\ cAnswers' = Append(cAnswers, st)
          /\ IF st = HTTP_OK
             THEN /\ collItems' = { it \in collItems : it["_key"] # Head(cTodo)["_key"] }
                  /\ cTodo' = Tail(cTodo)
                  /\ cPc' = IF Tail(cTodo) = <<>> THEN "returned" ELSE "delete"
                  /\ cRaised' = 0
             ELSE /\ cRaised' = Reraised(st)
                  /\ cPc' = IF Reraised(st) # 0 THEN "raised" ELSE "returned"
                  /\ UNCHANGED <<collItems, cTodo>>
    /\ UNCHANGED <<collExists, collItems0>>
    /\ UNCHANGED notColl


(***************************************************************************)
(* VCRGzipSerializer.normalize_cassette                                    *)
(***************************************************************************)
AUTHORIZATION ==
    <<"A", "u", "t", "h", "o", "r", "i", "z", "a", "t", "i", "o", "n">>
ACCEPT == <<"A", "c", "c", "e", "p", "t">>

\* 'f' * 32
PlaceholderKey == [i \in 1..32 |-> "f"]

\* 'Basic {}'.format(base64.b64encode('{}:'.format(key).encode('utf-8')).decode('utf-8'))
BasicAuth(key) ==
    <<"B", "a", "s", "i", "c", " ">> \o B64Encode(Utf8Encode(key \o <<":">>))

\* TEST_ENDPOINT or HubstorageClient.DEFAULT_ENDPOINT
EffectiveEndpoint ==
    IF TEST_ENDPOINT # <<>> THEN TEST_ENDPOINT ELSE HubstorageClient_DEFAULT_ENDPOINT

\* lines 63-71: the Authorization header, if there is one, becomes the placeholder
NormalizeHeaders(headers) ==
    IF AUTHORIZATION \in DOMAIN headers
    THEN [h \in DOMAIN headers |->
            IF h = AUTHORIZATION THEN BasicAuth(PlaceholderKey) ELSE headers[h]]
    ELSE headers

\* lines 50-61: the endpoint, then the project id, replaced in the URI
NormalizeUri(uri) ==
    Replace(Replace(uri, EffectiveEndpoint, DEFAULT_ENDPOINT),
            TEST_PROJECT_ID, DEFAULT_PROJECT_ID)

\* one turn of the loop of lines 49-73
NormalizeInteraction(it) ==
    [it EXCEPT !.request.uri = NormalizeUri(@),
               !.request.headers = NormalizeHeaders(@)]

\* normalize_cassette(cassette_dict)
NormalizeCassette(c) ==
    [c EXCEPT !.interactions =
        [i \in DOMAIN c.interactions |-> NormalizeInteraction(c.interactions[i])]]

\* ---- the recorded interactions considered ----
\* at most this many interactions in a cassette
MaxInteractions == 2
\* normalize_cassette is called at most this many times on one cassette
MaxNormalize == 2

OtherEndpoint == <<"h", "t", "t", "p", ":", "/", "/", "h", ":", "8", "0">>
OtherProjectId == <<"1", "1", "1", "1", "1", "1", "1">>

\* the (HS_ENDPOINT, HS_PROJECT_ID) settings considered: the
\* defaults, a private service and project, an empty endpoint, and project
\* ids that overlap the default one
Environments ==
    { <<DEFAULT_ENDPOINT, DEFAULT_PROJECT_ID>>,
      <<OtherEndpoint, OtherProjectId>>,
      << <<>>, OtherProjectId>>,
      <<DEFAULT_ENDPOINT, <<"2", "2", "2">> >>,
      <<DEFAULT_ENDPOINT, <<"1", "2">> >> }

OtherKey ==
    <<"0", "1", "2", "3", "4", "5", "6", "7", "8", "9", "a", "b", "c", "d",
      "e", "f", "0", "1", "2", "3", "4", "5", "6", "7", "8", "9", "a", "b",
      "c", "d", "e", "f">>

\* a queue summary, and an items request with a start cursor (job 1/112)
SummaryUri ==
    EffectiveEndpoint \o <<"/", "j", "o", "b", "q", "/">> \o TEST_PROJECT_ID
        \o <<"/", "s", "u", "m", "m", "a", "r", "y">>
ItemsUri ==
    EffectiveEndpoint \o <<"/", "i", "t", "e", "m", "s", "/">> \o TEST_PROJECT_ID
        \o <<"/", "1", "/", "1", "1", "2", "?", "s", "t", "a", "r", "t", "=">>
        \o TEST_PROJECT_ID \o <<"/", "1", "/", "1", "1", "2", "/", "5">>

Msgpack == <<"a", "p", "p", "l", "i", "c", "a", "t", "i", "o", "n", "/",
             "x", "-", "m", "s", "g", "p", "a", "c", "k">>

NoHeaders == [h \in {} |-> <<>>]
AcceptOnly == [h \in {ACCEPT} |-> Msgpack]
WithAuth(key) ==
    [h \in {ACCEPT, AUTHORIZATION} |-> IF h = ACCEPT THEN Msgpack ELSE BasicAuth(key)]

BinaryBody == <<0, 200, 255, 255, 10, 128>>

Interaction(uri, headers, body, status, rbody) ==
    [request |-> [uri |-> uri, headers |-> headers, body |-> body],
     response |-> [status |-> status, body |-> rbody]]

Interactions ==
    { Interaction(SummaryUri, AcceptOnly, <<>>, 200, <<123, 125>>),
      Interaction(ItemsUri, WithAuth(PlaceholderKey), <<>>, 200, BinaryBody),
      Interaction(SummaryUri, WithAuth(OtherKey), BinaryBody, 200, <<>>),
      Interaction(ItemsUri, NoHeaders, BinaryBody, 404, <<>>) }

Cassettes ==
    { [version |-> 1, interactions |-> its] :
        its \in UNION { [1..n -> Interactions] : n \in 0..MaxInteractions } }

NoCassette == [version |-> 0, interactions |-> <<>>]

CassIdle ==
    /\ cassette = NoCassette
    /\ cassette0 = NoCassette
    /\ norm1 = NoCassette
    /\ nNorm = 0
    /\ passed = NoCassette
    /\ blob = <<>>
    /\ loaded = NoCassette
    /\ sPc = "idle"

CassStart ==
    /\ \E env \in Environments :
          /\ TEST_ENDPOINT = env[1]
          /\ TEST_PROJECT_ID = env[2]
    /\ NORMALIZE_CASSETTES \in BOOLEAN
    /\ cassette \in Cassettes
    /\ cassette0 = cassette
    /\ norm1 = NoCassette
    /\ nNorm = 0
    /\ passed = NoCassette
    /\ blob = <<>>
    /\ loaded = NoCassette
    /\ sPc = "ready"

\* VCRGzipSerializer.normalize_cassette(cassette_dict) called by itself; it
\* works in place
Normalize ==
    /\ sPc = "ready"
    /\ nNorm < MaxNormalize
    /\ cassette' = NormalizeCassette(cassette)
    /\ nNorm' = nNorm + 1
    /\ norm1' = IF nNorm = 0 THEN cassette' ELSE norm1
    /\ UNCHANGED <<cassette0, passed, blob, loaded, sPc>>
    /\ UNCHANGED notCass


(***************************************************************************)
(* pickle.dumps(cassette_dict, protocol=2) and pickle.loads: the cassette  *)
(* as a stream of protocol-2 opcodes (memo opcodes left out)               *)
(***************************************************************************)
OP_PROTO == 128
PICKLE_PROTOCOL == 2
OP_STOP == 46
OP_EMPTY_DICT == 125
OP_MARK == 40
OP_SETITEMS == 117
OP_EMPTY_LIST == 93
OP_APPENDS == 101
OP_BINUNICODE == 88
OP_SHORT_BINSTRING == 85
OP_BININT1 == 75
OP_BININT2 == 77

KeyVersion == <<"v", "e", "r", "s", "i", "o", "n">>
KeyInteractions == <<"i", "n", "t", "e", "r", "a", "c", "t", "i", "o", "n", "s">>
KeyRequest == <<"r", "e", "q", "u", "e", "s", "t">>
KeyResponse == <<"r", "e", "s", "p", "o", "n", "s", "e">>
KeyUri == <<"u", "r", "i">>
KeyHeaders == <<"h", "e", "a", "d", "e", "r", "s">>
KeyBody == <<"b", "o", "d", "y">>
KeyStatus == <<"s", "t", "a", "t", "u", "s">>

\* text: BINUNICODE, a 4-byte little-endian length, the UTF-8 bytes
PickleStr(s) ==
    <<OP_BINUNICODE, Len(s) % 256, Len(s) \div 256, 0, 0>> \o Utf8Encode(s)

\* variant: a text-only encoding that keeps seven bits of every byte
PickleBytes7Bit(b) == <<OP_SHORT_BINSTRING, Len(b)>> \o [i \in DOMAIN b |-> b[i] % 128]

\* binary data: SHORT_BINSTRING, a 1-byte length, the bytes as they are
PickleBytes(b) == <<OP_SHORT_BINSTRING, Len(b)>> \o b

PickleInt(n) ==
    IF n < 256 THEN <<OP_BININT1, n>> ELSE <<OP_BININT2, n % 256, n \div 256>>

\* a dict: EMPTY_DICT MARK key value ... SETITEMS
PickleDict(items) == <<OP_EMPTY_DICT, OP_MARK>> \o items \o <<OP_SETITEMS>>

RECURSIVE PickleHeaderItems(_, _)
PickleHeaderItems(headers, names) ==
    IF names = {} THEN <<>>
    ELSE LET h == CHOOSE x \in names : TRUE
         IN PickleStr(h) \o PickleStr(headers[h])
                \o PickleHeaderItems(headers, names \ {h})

PickleRequest(r) ==
    PickleDict(PickleStr(KeyUri) \o PickleStr(r.uri)
               \o PickleStr(KeyHeaders)
               \o PickleDict(PickleHeaderItems(r.headers, DOMAIN r.headers))
               \o PickleStr(KeyBody) \o PickleBytes(r.body))

PickleResponse(r) ==
    PickleDict(PickleStr(KeyStatus) \o PickleInt(r.status)
               \o PickleStr(KeyBody) \o PickleBytes(r.body))

PickleInteraction(it) ==
    PickleDict(PickleStr(KeyRequest) \o PickleRequest(it.request)
               \o PickleStr(KeyResponse) \o PickleResponse(it.response))

RECURSIVE PickleInteractions(_, _)
PickleInteractions(its, i) ==
    IF i > Len(its) THEN <<>>
    ELSE PickleInteraction(its[i]) \o PickleInteractions(its, i + 1)

\* pickle.dumps(cassette_dict, protocol=2)
PickleDumps(c) ==
    <<OP_PROTO, PICKLE_PROTOCOL>>
    \o PickleDict(PickleStr(KeyVersion) \o PickleInt(c.version)
                  \o PickleStr(KeyInteractions)
                  \o <<OP_EMPTY_LIST, OP_MARK>>
                  \o PickleInteractions(c.interactions, 1)
                  \o <<OP_APPENDS>>)
    \o <<OP_STOP>>

\* The readers give the value read at p and the position after it.
Got(v, p) == [v |-> v, p |-> p]

LoadStr(b, p) ==
    LET n == b[p + 1] + 256 * b[p + 2]
    IN Got(Utf8Decode(SubSeq(b, p + 5, p + 4 + n)), p + 5 + n)

LoadBytes(b, p) == Got(SubSeq(b, p + 2, p + 1 + b[p + 1]), p + 2 + b[p + 1])

LoadInt(b, p) ==
    IF b[p] = OP_BININT1 THEN Got(b[p + 1], p + 2)
    ELSE Got(b[p + 1] + 256 * b[p + 2], p + 3)

RECURSIVE LoadHeaderItems(_, _, _)
\* key/value pairs up to SETITEMS
LoadHeaderItems(b, p, acc) ==
    IF b[p] = OP_SETITEMS THEN Got(acc, p + 1)
    ELSE LET k == LoadStr(b, p)
             v == LoadStr(b, k.p)
         IN LoadHeaderItems(b, v.p,
                [h \in (DOMAIN acc) \cup {k.v} |-> IF h = k.v THEN v.v ELSE acc[h]])

\* p is at EMPTY_DICT; the keys come in the order PickleRequest wrote them
LoadRequest(b, p) ==
    LET kUri     == LoadStr(b, p + 2)
        uri      == LoadStr(b, kUri.p)
        kHeaders == LoadStr(b, uri.p)
        headers  == LoadHeaderItems(b, kHeaders.p + 2, [h \in {} |-> <<>>])
        kBody    == LoadStr(b, headers.p)
        body     == LoadBytes(b, kBody.p)
    IN Got([uri |-> uri.v, headers |-> headers.v, body |-> body.v], body.p + 1)

LoadResponse(b, p) ==
    LET kStatus == LoadStr(b, p + 2)
        status  == LoadInt(b, kStatus.p)
        kBody   == LoadStr(b, status.p)
        body    == LoadBytes(b, kBody.p)
    IN Got([status |-> status.v, body |-> body.v], body.p + 1)

LoadInteraction(b, p) ==
    LET kRequest  == LoadStr(b, p + 2)
        request   == LoadRequest(b, kRequest.p)
        kResponse == LoadStr(b, request.p)
        response  == LoadResponse(b, kResponse.p)
    IN Got([request |-> request.v, response |-> response.v], response.p + 1)

RECURSIVE LoadInteractions(_, _, _)
\* list items up to APPENDS
LoadInteractions(b, p, acc) ==
    IF b[p] = OP_APPENDS THEN Got(acc, p + 1)
    ELSE LET it == LoadInteraction(b, p)
         IN LoadInteractions(b, it.p, Append(acc, it.v))

\* pickle.loads(bytes)
PickleLoads(b) ==
    LET kVersion      == LoadStr(b, 5)
        version       == LoadInt(b, kVersion.p)
        kInteractions == LoadStr(b, version.p)
        interactions  == LoadInteractions(b, kInteractions.p + 2, <<>>)
    IN [version |-> version.v, interactions |-> interactions.v]

(***************************************************************************)
(* zlib.compress / zlib.decompress: a lossless byte compressor, taken here *)
(* as run-length coding behind the two-byte zlib header                    *)
(***************************************************************************)
ZLIB_CMF == 120
ZLIB_FLG == 156
MAX_RUN == 255

\* two run lists put together: the runs that meet are merged if they hold the
\* same byte and fit in one run
JoinRuns(x, y) ==
    IF x # <<>> /\ y # <<>> /\ x[Len(x)] = y[2] /\ x[Len(x) - 1] + y[1] <= MAX_RUN
    THEN SubSeq(x, 1, Len(x) - 2) \o <<x[Len(x) - 1] + y[1], y[2]>> \o SubSeq(y, 3, Len(y))
    ELSE x \o y

RECURSIVE Runs(_, _, _)
\* b[lo..hi] as (count, byte) pairs
Runs(b, lo, hi) ==
    IF lo > hi THEN <<>>
    ELSE IF lo = hi THEN <<1, b[lo]>>
    ELSE JoinRuns(Runs(b, lo, (lo + hi) \div 2), Runs(b, (lo + hi) \div 2 + 1, hi))

ZlibCompress(b) == <<ZLIB_CMF, ZLIB_FLG>> \o Runs(b, 1, Len(b))

RECURSIVE ExpandRuns(_, _, _)
\* the bytes of the pairs lo..hi that follow the header of z
ExpandRuns(z, lo, hi) ==
    IF lo > hi THEN <<>>
    ELSE IF lo = hi THEN [k \in 1..z[2 * lo + 1] |-> z[2 * lo + 2]]
    ELSE ExpandRuns(z, lo, (lo + hi) \div 2) \o ExpandRuns(z, (lo + hi) \div 2 + 1, hi)

ZlibDecompress(z) == ExpandRuns(z, 1, (Len(z) - 2) \div 2)

(***************************************************************************)
(* VCRGzipSerializer.serialize / deserialize                               *)
(***************************************************************************)

\* lines 85-86: base64.b64encode(zlib.compress(pickle.dumps(d, protocol=2))).decode('utf8')
Encode(d) == B64Encode(ZlibCompress(PickleDumps(d)))

\* lines 90-91: pickle.loads(zlib.decompress(base64.b64decode(s.encode('utf8'))))
Decode(str) == PickleLoads(ZlibDecompress(B64Decode(str)))

\* serialize(cassette_dict), as the recorder calls it on a cassette nothing
\* else has normalized: with NORMALIZE_CASSETTES the caller's dict is
\* normalized in place before it is encoded
Serialize ==
    /\ sPc = "ready"
    /\ nNorm = 0
    /\ passed' = cassette
    /\ cassette' = IF NORMALIZE_CASSETTES THEN NormalizeCassette(cassette) ELSE cassette
    /\ blob' = Encode(cassette')
    /\ sPc' = "serialized"
    /\ UNCHANGED <<cassette0, norm1, nNorm, loaded>>
    /\ UNCHANGED notCass

\* deserialize(cassette_string)
Deserialize ==
    /\ sPc = "serialized"
    /\ loaded' = Decode(blob)
    /\ sPc' = "loaded"
    /\ UNCHANGED <<cassette, cassette0, norm1, nNorm, passed, blob>>
    /\ UNCHANGED notCass


(***************************************************************************)
(* The pytest session: pytest_configure, the session fixtures, setup_vcrpy *)
(* and my_vcr (record_mode 'once' unless pytest_configure changes it)      *)
(***************************************************************************)

\* at most this many tests are selected, and this many runs follow each other
MaxTests == 2
MaxRuns == 2

\* str.split('.')[-1]: what follows the last '.', the whole text if none
LastComponent(s) ==
    LET dots == { i \in DOMAIN s : s[i] = "." }
    IN IF dots = {} THEN s
       ELSE SubSeq(s, (CHOOSE i \in dots : \A j \in dots : j <= i) + 1, Len(s))

\* request.function.__module__ of the tests this conftest.py serves: two
\* modules of the same name, one of them in a sub-package, and a third module
HubstorageJobq == <<"t", "e", "s", "t", "s", ".", "h", "u", "b", "s", "t", "o", "r", "a", "g",
  "e", ".", "t", "e", "s", "t", "_", "j", "o", "b", "q">>
NestedJobq == <<"t", "e", "s", "t", "s", ".", "h", "u", "b", "s", "t", "o", "r", "a", "g",
  "e", ".", "n", "e", "s", "t", "e", "d", ".", "t", "e", "s", "t", "_", "j",
  "o", "b", "q">>
HubstorageProject == <<"t", "e", "s", "t", "s", ".", "h", "u", "b", "s", "t", "o", "r", "a", "g",
  "e", ".", "t", "e", "s", "t", "_", "p", "r", "o", "j", "e", "c", "t">>
ModuleNames == {HubstorageJobq, NestedJobq, HubstorageProject}
\* test_x uses the json_and_msgpack fixture, test_y does not
ParametrizedTest == <<"t", "e", "s", "t", "_", "x">>
PlainTest == <<"t", "e", "s", "t", "_", "y">>

Test(m, f, v) == [module |-> m, function |-> f, variant |-> v]

\* the test invocations pytest collects; variant is the value of
\* json_and_msgpack, "none" for a test that does not use the fixture
Tests ==
    { Test(HubstorageJobq, ParametrizedTest, "json"),
      Test(HubstorageJobq, ParametrizedTest, "msgpack"),
      Test(NestedJobq, ParametrizedTest, "json"),
      Test(HubstorageJobq, PlainTest, "none"),
      Test(HubstorageProject, PlainTest, "none") }

\* variant: no serializer suffix
CassetteNameNoSuffix(t) ==
    LastComponent(t.module) \o <<"/">> \o t.function \o <<".", "g", "z">>

\* lines 169-177: '{}/{}{}.gz'.format(module.split('.')[-1], function name, suffix)
CassetteName(t) ==
    LET serializer_suffix ==
            IF t.variant = "json" THEN <<"-", "j", "s", "o", "n">> ELSE <<>>
    IN LastComponent(t.module) \o <<"/">> \o t.function \o serializer_suffix
           \o <<".", "g", "z">>

\* variant: every session is taken to use real services
IsUsingRealServicesAlways == TRUE

\* is_using_real_services(request)
IsUsingRealServices == optUpdate \/ optIgnore

\* What my_vcr.use_cassette(name) does with the file: record_mode 'once'
\* replays an existing file and records a missing one; 'all' never replays.
TapeMode(name) ==
    IF record_mode = "all" THEN "all"
    ELSE IF name \in DOMAIN cassettes THEN "replay" ELSE "record"

NoTape == [name |-> <<>>, mode |-> "none", recorded |-> <<>>]

SessIdle ==
    /\ run = 0
    /\ optUpdate = FALSE
    /\ optIgnore = FALSE
    /\ record_mode = "once"
    /\ skipRecording = FALSE
    /\ cassettes = << >>
    /\ suite = {}
    /\ current = <<>>
    /\ tape = NoTape
    /\ sLog = <<>>
    /\ closeCount = 0
    /\ used = {}
    /\ written = {}
    /\ replayed = {}
    /\ phase = "idle"

\* the tests selected for a run
Suites == { ts \in SUBSET Tests : Cardinality(ts) \in 1..MaxTests }

\* the first run starts with no cassette on disk
SessStart ==
    /\ run = 1
    /\ optUpdate \in BOOLEAN
    /\ optIgnore \in BOOLEAN
    /\ record_mode = "once"
    /\ skipRecording = FALSE
    /\ cassettes = << >>
    /\ suite \in Suites
    /\ current = <<>>
    /\ tape = NoTape
    /\ sLog = <<>>
    /\ closeCount = 0
    /\ used = {}
    /\ written = {}
    /\ replayed = {}
    /\ phase = "configure"

\* variant: update mode through vcr's `all` record mode, the files kept
PytestConfigureAllMode ==
    /\ phase = "configure"
    /\ IF optUpdate
       THEN /\ record_mode' = "all"
            /\ UNCHANGED <<cassettes, skipRecording, sLog>>
       ELSE IF optIgnore
            THEN /\ record_mode' = "all"
                 /\ skipRecording' = TRUE
                 /\ UNCHANGED <<cassettes, sLog>>
            ELSE UNCHANGED <<cassettes, record_mode, skipRecording, sLog>>
    /\ phase' = "hscollection"
    /\ UNCHANGED <<run, optUpdate, optIgnore, suite, current, tape, closeCount,
                   used, written, replayed>>
    /\ UNCHANGED notSess

\* pytest_configure(config)
PytestConfigure ==
    /\ phase = "configure"
    /\ IF optUpdate
       THEN /\ cassettes' = << >>
            /\ sLog' = Append(sLog, "rmtree")
            /\ UNCHANGED <<record_mode, skipRecording>>
       ELSE IF optIgnore
            THEN /\ record_mode' = "all"
                 /\ skipRecording' = TRUE
                 /\ UNCHANGED <<cassettes, sLog>>
            ELSE UNCHANGED <<cassettes, record_mode, skipRecording, sLog>>
    /\ phase' = "hscollection"
    /\ UNCHANGED <<run, optUpdate, optIgnore, suite, current, tape, closeCount,
                   used, written, replayed>>
    /\ UNCHANGED notSess

\* fixture hscollection, lines 138-143, which setup_session depends on:
\* clean_collection may let an HTTPError out, and setup_session then fails
HsCollection ==
    /\ phase = "hscollection"
    /\ IF IsUsingRealServices
       THEN /\ sLog' = Append(sLog, "clean_collection")
            /\ phase' \in {"setup_session", "setup_failed"}
       ELSE /\ phase' = "setup_session"
            /\ UNCHANGED sLog
    /\ UNCHANGED <<run, optUpdate, optIgnore, record_mode, skipRecording, cassettes,
                   suite, current, tape, closeCount, used, written, replayed>>
    /\ UNCHANGED notSess

\* fixture setup_session up to its yield, lines 146-151, set up for the first
\* test; set_testbotgroup may fail and the assertion of _remove_job may abort
\* remove_all_jobs
SetupSession ==
    /\ phase = "setup_session"
    /\ IF IsUsingRealServices
       THEN \/ /\ sLog' = Append(sLog, "set_testbotgroup")
               /\ phase' = "setup_failed"
            \/ /\ sLog' = sLog \o <<"set_testbotgroup", "remove_all_jobs">>
               /\ phase' \in {"tests", "setup_failed"}
       ELSE /\ phase' = "tests"
            /\ UNCHANGED sLog
    /\ UNCHANGED <<run, optUpdate, optIgnore, record_mode, skipRecording, cassettes,
                   suite, current, tape, closeCount, used, written, replayed>>
    /\ UNCHANGED notSess

\* hscollection or setup_session raised: pytest reports every test as an
\* error and runs nothing after the yield of a fixture that did not reach it.
SetupFailed ==
    /\ phase = "setup_failed"
    /\ suite' = {}
    /\ phase' = "aborted"
    /\ UNCHANGED <<run, optUpdate, optIgnore, record_mode, skipRecording, cassettes,
                   current, tape, sLog, closeCount, used, written, replayed>>
    /\ UNCHANGED notSess

\* fixture setup_vcrpy up to its yield, lines 169-181, for the next test
SetupVcrpy ==
    /\ phase = "tests"
    /\ current = <<>>
    /\ \E t \in suite :
          LET cassette_name == CassetteName(t)
          IN /\ suite' = suite \ {t}
             /\ used' = used \cup {[name |-> cassette_name, test |-> t]}
             /\ \/ /\ IsUsingRealServices
                   /\ sLog' = Append(sLog, "remove_all_jobs")
                   /\ \/ /\ current' = <<t>>
                         /\ tape' = [name |-> cassette_name, mode |-> TapeMode(cassette_name),
                                     recorded |-> <<>>]
                      \/ \* remove_all_jobs raised: the test is an error
                         /\ current' = <<>>
                         /\ tape' = NoTape
                \/ /\ ~IsUsingRealServices
                   /\ sLog' = sLog
                   /\ current' = <<t>>
                   /\ tape' = [name |-> cassette_name, mode |-> TapeMode(cassette_name),
                               recorded |-> <<>>]
    /\ UNCHANGED <<run, optUpdate, optIgnore, record_mode, skipRecording, cassettes,
                   closeCount, written, replayed, phase>>
    /\ UNCHANGED notSess

\* the test body talks to the backend through the open cassette
TestBody ==
    /\ phase = "tests"
    /\ current # <<>>
    /\ tape.mode \in {"replay", "record", "all"}
    /\ sLog' = Append(sLog, "backend")
    /\ IF tape.mode = "replay"
       THEN /\ replayed' = replayed \cup {[run |-> run, name |-> tape.name]}
            /\ tape' = [tape EXCEPT !.mode = "replayed"]
       ELSE /\ replayed' = replayed
            /\ tape' = [tape EXCEPT !.recorded =
                          IF skipRecording THEN <<>>
                          ELSE <<[run |-> run, test |-> current[1]]>>,
                        !.mode = IF tape.mode = "all" THEN "all_done" ELSE "recorded"]
    /\ UNCHANGED <<run, optUpdate, optIgnore, record_mode, skipRecording, cassettes,
                   suite, current, closeCount, used, written, phase>>
    /\ UNCHANGED notSess

\* the with block of setup_vcrpy ends: the cassette is saved if it recorded
\* anything new ('all' keeps what the file held and adds to it)
TestTeardown ==
    /\ phase = "tests"
    /\ current # <<>>
    /\ tape.mode \in {"replayed", "recorded", "all_done"}
    /\ IF tape.recorded # <<>>
       THEN /\ cassettes' =
                 [n \in (DOMAIN cassettes) \cup {tape.name} |->
                     IF n = tape.name
                     THEN (IF n \in DOMAIN cassettes THEN cassettes[n] ELSE <<>>)
                              \o tape.recorded
                     ELSE cassettes[n]]
            /\ written' = written \cup
                 {[run |-> run, name |-> tape.name, existed |-> tape.name \in DOMAIN cassettes]}
       ELSE UNCHANGED <<cassettes, written>>
    /\ current' = <<>>
    /\ tape' = NoTape
    /\ UNCHANGED <<run, optUpdate, optIgnore, record_mode, skipRecording, suite, sLog,
                   closeCount, used, replayed, phase>>
    /\ UNCHANGED notSess

\* fixture setup_session after its yield, line 152: hsclient.close()
SessionTeardown ==
    /\ phase = "tests"
    /\ current = <<>>
    /\ suite = {}
    /\ sLog' = Append(sLog, "close")
    /\ closeCount' = closeCount + 1
    /\ phase' = "done"
    /\ UNCHANGED <<run, optUpdate, optIgnore, record_mode, skipRecording, cassettes,
                   suite, current, tape, used, written, replayed>>
    /\ UNCHANGED notSess

\* pytest is started again: a new process, the cassette files as they are
NextRun ==
    /\ phase \in {"done", "aborted"}
    /\ run < MaxRuns
    /\ run' = run + 1
    /\ optUpdate' \in BOOLEAN
    /\ optIgnore' \in BOOLEAN
    /\ record_mode' = "once"
    /\ skipRecording' = FALSE
    /\ suite' \in Suites
    /\ current' = <<>>
    /\ tape' = NoTape
    /\ sLog' = <<>>
    /\ closeCount' = 0
    /\ used' = {}
    /\ written' = {}
    /\ replayed' = {}
    /\ phase' = "configure"
    /\ UNCHANGED cassettes
    /\ UNCHANGED notSess


(***************************************************************************)
(* Specifications                                                          *)
(***************************************************************************)
ItemsInit == EnvDefault /\ CassIdle /\ ItemsStart /\ JobsIdle /\ CollIdle /\ SessIdle
ItemsNext == ModifyIterParams
SpecItems == ItemsInit /\ [][ItemsNext]_vars

JobsInit == EnvDefault /\ CassIdle /\ JobsStart /\ ItemsIdle /\ CollIdle /\ SessIdle
JobsNext ==
    \/ RemoveAllJobsSettings
    \/ RemoveAllJobsSummary
    \/ RemoveAllJobsReturn
    \/ RemoveJobFinish
    \/ RemoveJobDelete
    \/ RemoveJobAssert
    \/ RemoveJobApiDelete
    \/ JobAdvances
SpecJobs == JobsInit /\ [][JobsNext]_vars

CollInit == EnvDefault /\ CassIdle /\ CollStart /\ ItemsIdle /\ JobsIdle /\ SessIdle
CollNext ==
    \/ CleanCollectionIter
    \/ CleanCollectionDelete
SpecColl == CollInit /\ [][CollNext]_vars

CassInit == CassStart /\ ItemsIdle /\ JobsIdle /\ CollIdle /\ SessIdle
CassNext ==
    \/ Normalize
    \/ Serialize
    \/ Deserialize
SpecCass == CassInit /\ [][CassNext]_vars

SessInit == EnvDefault /\ CassIdle /\ ItemsIdle /\ JobsIdle /\ CollIdle /\ SessStart
SessNext ==
    \/ PytestConfigure
    \/ HsCollection
    \/ SetupSession
    \/ SetupFailed
    \/ SetupVcrpy
    \/ TestBody
    \/ TestTeardown
    \/ SessionTeardown
    \/ NextRun
SpecSession == SessInit /\ [][SessNext]_vars

(***************************************************************************)
(* Properties                                                              *)
(***************************************************************************)

\* C1: for every offset N a params dict carries (N = 0 included) the returned
\* params have start = '<self.key>/N' and no 'offset' key; with no offset
\* supplied there is no 'offset' key and start is as the caller gave it.
C1_OffsetBecomesStart ==
    itPc = "done" =>
        /\ "offset" \notin DOMAIN itOut
        /\ ("offset" \in DOMAIN itParams /\ IsInt(itParams["offset"])) =>
              /\ "start" \in DOMAIN itOut
              /\ itOut["start"] =
                    PyStr(itKey \o <<"/">> \o IntToStr(itParams["offset"].int))
        /\ "offset" \notin DOMAIN itParams =>
              /\ ("start" \in DOMAIN itOut) = ("start" \in DOMAIN itParams)
              /\ "start" \in DOMAIN itParams => itOut["start"] = itParams["start"]


\* the job-changing operations of the log, and the summaries
IsJobOp(e) == e.op \in {"finish", "delete", "apidelete"}
SummaryEntries == SelectSeq(jLog, LAMBDA e : e.op = "summary")

\* C2: during remove_all_jobs no finish, jobq delete or job apidelete is ever
\* issued for a job key of another project than the test project, and a run in
\* which a summary listed such a key does not return normally.
C2_OnlyProjectJobsTouched ==
    /\ \A i \in DOMAIN jLog :
          IsJobOp(jLog[i]) => ProjectOf(jLog[i].key) = TEST_PROJECT_ID
    /\ jPc = "returned" =>
          \A i \in DOMAIN jLog : \A n \in DOMAIN jLog[i].keys :
              ProjectOf(jLog[i].keys[n]) = TEST_PROJECT_ID

\* C10: when remove_all_jobs has returned, the saved settings hold no key but
\* 'botgroups', with the value it had before the call; the save is the first
\* backend operation; the summaries were asked in the order pending, running,
\* finished, pending, running, finished; and every job a summary listed was
\* finished, deleted from the queue and api-deleted after that summary.
C10_CleanupPostcondition ==
    jPc = "returned" =>
        /\ DOMAIN savedSettings \subseteq {"botgroups"}
        /\ ("botgroups" \in DOMAIN savedSettings) = ("botgroups" \in DOMAIN settings0)
        /\ "botgroups" \in DOMAIN settings0 =>
              savedSettings["botgroups"] = settings0["botgroups"]
        /\ jLog[1].op = "save"
        /\ \A i \in DOMAIN jLog : jLog[i].op = "save" => i = 1
        /\ Len(SummaryEntries) = Len(QueueOrder)
        /\ \A i \in DOMAIN SummaryEntries : SummaryEntries[i].queue = QueueOrder[i]
        /\ \A i \in DOMAIN jLog : \A n \in DOMAIN jLog[i].keys :
              \E a, b, c \in DOMAIN jLog :
                  /\ i < a /\ a < b /\ b < c
                  /\ jLog[a] = Entry("finish", "", jLog[i].keys[n], <<>>)
                  /\ jLog[b] = Entry("delete", "", jLog[i].keys[n], <<>>)
                  /\ jLog[c] = Entry("apidelete", "", jLog[i].keys[n], <<>>)

\* a cleanup that returned after dropping a setting, keeping 'botgroups' and
\* removing a job it found in the second pass only
C10_Witness ==
    /\ jPc = "returned"
    /\ "botgroups" \in DOMAIN settings0
    /\ DOMAIN settings0 # {"botgroups"}
    /\ \E i \in DOMAIN jLog :
          /\ jLog[i].op = "summary" /\ jLog[i].keys # <<>>
          /\ Len(SelectSeq(SubSeq(jLog, 1, i), LAMBDA e : e.op = "summary")) > 3


\* C6: clean_collection returns normally when the collection does not exist
\* and the service answers 404; it lets the HTTPError through for any other
\* failure status, from the listing or from a delete; and when it returns
\* normally on an existing collection every entry has been deleted.
C6_CleanCollection ==
    /\ (cPc \in {"returned", "raised"} /\ cAnswers # <<>>
          /\ cAnswers[Len(cAnswers)] = HTTP_NOT_FOUND) => cPc = "returned"
    /\ (cPc \in {"returned", "raised"} /\ cAnswers # <<>>
          /\ cAnswers[Len(cAnswers)] \notin {HTTP_OK, HTTP_NOT_FOUND}) =>
              /\ cPc = "raised"
              /\ cRaised = cAnswers[Len(cAnswers)]
    /\ (cPc = "returned" /\ collExists) => collItems = {}


\* ---- the cassette serializer ----
Requests(c) == [i \in DOMAIN c.interactions |-> c.interactions[i].request]

\* normalize_cassette has run on the caller's cassette_dict
Normalized ==
    \/ nNorm >= 1
    \/ sPc \in {"serialized", "loaded"} /\ NORMALIZE_CASSETTES

\* the Authorization values of the cassette as recorded
OriginalAuths ==
    { Requests(cassette0)[i].headers[AUTHORIZATION] :
        i \in { j \in DOMAIN Requests(cassette0) :
                  AUTHORIZATION \in DOMAIN Requests(cassette0)[j].headers } }

\* C3: after normalize_cassette no request URI and no request header contains
\* the original Authorization value or the test project id (read for a
\* project id and a key other than the placeholders that replace them).
C3_NoOriginalValues ==
    Normalized =>
        \A i \in DOMAIN Requests(cassette) :
            LET req == Requests(cassette)[i]
                ids == {TEST_PROJECT_ID} \ {DEFAULT_PROJECT_ID}
                auths == OriginalAuths \ {BasicAuth(PlaceholderKey)}
            IN /\ \A a \in ids \cup auths : ~Contains(req.uri, a)
               /\ \A h \in DOMAIN req.headers :
                     \A a \in ids \cup auths : ~Contains(req.headers[h], a)

\* C4: normalize_cassette is idempotent: normalizing a second time changes
\* no URI and no header, whatever TEST_ENDPOINT and TEST_PROJECT_ID are.
C4_Idempotent == nNorm >= 2 => cassette = norm1

\* C5 as stated: deserialize(serialize(c)) equals the c that was handed to
\* serialize, whatever NORMALIZE_CASSETTES is.
C5_RoundTripOfPassed == sPc = "loaded" => loaded = passed

\* C5: deserialize(serialize(c)) equals c as serialize leaves it:
\* the c handed in when NORMALIZE_CASSETTES is off, normalize_cassette(c) -
\* which the caller's dict has become - when it is on.
C5_RoundTrip ==
    sPc = "loaded" =>
        /\ loaded = cassette
        /\ loaded = (IF NORMALIZE_CASSETTES THEN NormalizeCassette(passed) ELSE passed)

\* a round trip of a cassette with binary bodies that serialize normalized
C5_Witness ==
    /\ sPc = "loaded"
    /\ NORMALIZE_CASSETTES
    /\ loaded = cassette
    /\ cassette # passed
    /\ \E i \in DOMAIN loaded.interactions :
          /\ loaded.interactions[i].request.body = BinaryBody
          /\ loaded.interactions[i].request.headers # NoHeaders


(***************************************************************************)
(* The pytest session                                                      *)
(***************************************************************************)

IsJson(t) == t.variant = "json"

\* C7 as stated: two test invocations that differ in test module, test
\* function or serializer variant are never given the same cassette name.
C7_InjectiveOverTests ==
    \A u1 \in used : \A u2 \in used :
        u1.test # u2.test => u1.name # u2.name

\* C7: two test invocations are given the same cassette name exactly when
\* they agree on the last component of the module name, on the function name
\* and on whether the serializer variant is json.
C7_InjectiveOverNameParts ==
    \A u1 \in used : \A u2 \in used :
        (u1.name = u2.name) <=>
            /\ LastComponent(u1.test.module) = LastComponent(u2.test.module)
            /\ u1.test.function = u2.test.function
            /\ IsJson(u1.test) = IsJson(u2.test)

\* two tests of equally named modules were given one name, in a run where
\* the second of them replayed what the first recorded
C7_Witness ==
    /\ \E u1 \in used : \E u2 \in used :
          /\ u1.test.module # u2.test.module
          /\ u1.name = u2.name
    /\ written # {}
    /\ replayed # {}
    /\ run = 1

RunsOf(name) == { cassettes[name][i].run : i \in DOMAIN cassettes[name] }

\* C8: a cassette never holds interactions of two runs; a cassette file is
\* written only when it was missing; in update mode every cassette on disk
\* after pytest_configure was recorded by this run; in ignore mode nothing
\* is replayed and nothing is written.
C8_CassetteLifecycle ==
    /\ \A n \in DOMAIN cassettes : Cardinality(RunsOf(n)) = 1
    /\ \A w \in written : ~w.existed /\ w.name \in DOMAIN cassettes
    /\ \A r \in replayed : r.name \in DOMAIN cassettes
    /\ (optUpdate /\ phase # "configure") =>
           \A n \in DOMAIN cassettes : RunsOf(n) = {run}
    /\ (optIgnore /\ ~optUpdate) => (written = {} /\ replayed = {})

\* a default-mode run after a recording run: one cassette of the earlier run
\* was replayed and a missing one was recorded
C8_Witness ==
    /\ run = 2
    /\ ~optUpdate
    /\ ~optIgnore
    /\ phase = "done"
    /\ written # {}
    /\ \E r \in replayed : RunsOf(r.name) = {1}

Destructive == {"set_testbotgroup", "remove_all_jobs", "clean_collection"}

InLog(op) == \E i \in DOMAIN sLog : sLog[i] = op

ReplayOnlyIsHarmless ==
    ~(optUpdate \/ optIgnore) => \A op \in Destructive : ~InLog(op)

CloseIsLast ==
    /\ closeCount <= 1
    /\ \A i \in DOMAIN sLog : sLog[i] = "close" => i = Len(sLog)
    /\ closeCount = 1 <=> InLog("close")
    /\ closeCount = 1 => (phase = "done" /\ suite = {} /\ current = <<>>)

====
